---- MODULE Spec2Model ----
(***************************************************************************)
(* Model of the vte-input key-event encoder: generate_sequence (lib.rs),   *)
(* the key identity tables (key.rs) and the Sequence data model            *)
(* (sequence.rs).  Characters are code points, strings are sequences of    *)
(* code points, Option<T> is a sequence of length at most one.             *)
(***************************************************************************)
EXTENDS Integers, Sequences, FiniteSets, TLC

(* ------------------------------ bounds -------------------------------- *)
\* Number of Unicode scalars drawn from UnicodeSample for the key identities.
NumChars == 2
\* Longest associated text an event carries.
MaxTextLen == 1
\* Longest associated text handed to its Display on its own.
MaxDisplayTextLen == 3
\* Number of callers inside generate_sequence at the same time.
NumCallers == 2

(* ------------------------- Option<T> ---------------------------------- *)
None == << >>
Some(v) == << v >>
IsSome(o) == o # << >>
Unwrap(o) == o[1]

(* ------------------------- bit flag sets ------------------------------ *)
\* ReportingMode flags
DISAMBIGUATE_ESC_CODES == 1
REPORT_EVENT_TYPES == 2
REPORT_ALTERNATE_KEYS == 4
REPORT_ALL_KEYS_AS_ESC == 8
REPORT_ASSOCIATED_TEXT == 16
\* ReportingMode::all()
ReportingModeAll == 31

\* KeyboardModifiers flags
SHIFT == 1
ALT == 2
CTRL == 4
SUPER == 8
HYPER == 16
META == 32
CAPS_LOCK == 64
NUM_LOCK == 128

RECURSIVE BitAnd(_, _)
BitAnd(a, b) ==
    IF a = 0 \/ b = 0 THEN 0
    ELSE (IF a % 2 = 1 /\ b % 2 = 1 THEN 1 ELSE 0)
         + 2 * BitAnd(a \div 2, b \div 2)

\* bitflags: a.intersects(b), a.difference(b), a.is_empty()
intersects(a, b) == BitAnd(a, b) # 0
difference(a, b) == a - BitAnd(a, b)
is_empty(a) == a = 0

(* ------------------------- sequence.rs -------------------------------- *)
EventTypes == {"Press", "Repeat", "Release"}

Kitty == [tag |-> "Kitty"]
Other(ch) == [tag |-> "Other", ch |-> ch]

\* KeyCode { key_code, ..Default::default() }
KeyCodeDefault(num) ==
    [key_code |-> num, shifted_key_code |-> None, base_layout_key_code |-> None]

\* Sequence { key_code, terminator, ..Default::default() }
SequenceDefault(num, terminator) ==
    [introducer |-> "CSI",
     key_code |-> KeyCodeDefault(num),
     modifier |-> 0,
     event_type |-> "Press",
     associated_text |-> None,
     terminator |-> terminator]

(* ------------------------ Display (sequence.rs) ----------------------- *)
\* core's Display of an unsigned integer: its decimal digits
RECURSIVE Dec(_)
Dec(n) == IF n < 10 THEN <<48 + n>> ELSE Dec(n \div 10) \o <<48 + (n % 10)>>

\* impl Display for SequenceIntroducer: "\x1b[" or "\x1bO"
SequenceIntroducer_fmt(introducer) ==
    IF introducer = "CSI" THEN <<27, 91>> ELSE <<27, 79>>

\* mutant: the shorthand for code 1 is applied whatever the alternates are
KeyCode_fmt_shorthand_always(key_code) ==
    LET p == key_code.key_code
        s == key_code.shifted_key_code
        b == key_code.base_layout_key_code
    IN  IF p = 1 THEN << >>
        ELSE IF s = None /\ b = None THEN Dec(p)
        ELSE IF b = None THEN Dec(p) \o <<58>> \o Dec(Unwrap(s))
        ELSE IF s = None THEN Dec(p) \o <<58, 58>> \o Dec(Unwrap(b))
        ELSE Dec(p) \o <<58>> \o Dec(Unwrap(s)) \o <<58>> \o Dec(Unwrap(b))

\* impl Display for KeyCode, the match arms in order
KeyCode_fmt(key_code) ==
    LET p == key_code.key_code
        s == key_code.shifted_key_code
        b == key_code.base_layout_key_code
    IN  IF p = 1 /\ s = None /\ b = None THEN << >>
        ELSE IF s = None /\ b = None THEN Dec(p)
        ELSE IF IsSome(s) /\ b = None THEN Dec(p) \o <<58>> \o Dec(Unwrap(s))
        ELSE IF s = None /\ IsSome(b) THEN Dec(p) \o <<58, 58>> \o Dec(Unwrap(b))
        ELSE Dec(p) \o <<58>> \o Dec(Unwrap(s)) \o <<58>> \o Dec(Unwrap(b))

\* mutant: the increment is done in the u8 of the flag set
KeyboardModifiers_fmt_u8(bits) == Dec((bits + 1) % 256)

\* impl Display for KeyboardModifiers: self.bits() as u16 + 1
KeyboardModifiers_fmt(bits) == Dec(((bits % 65536) + 1) % 65536)

\* impl Display for EventType
EventType_fmt(event_type) ==
    CASE event_type = "Press" -> <<49>>
      [] event_type = "Repeat" -> <<50>>
      [] event_type = "Release" -> <<51>>

\* for ch in chars { write!(f, ":{}", u32::from(ch)) }
RECURSIVE AssociatedText_rest(_)
AssociatedText_rest(chars) ==
    IF chars = << >> THEN << >>
    ELSE <<58>> \o Dec(Head(chars)) \o AssociatedText_rest(Tail(chars))

\* mutant: every scalar, the last one included, is followed by a separator
RECURSIVE AssociatedText_fmt_trailing(_)
AssociatedText_fmt_trailing(text) ==
    IF text = << >> THEN << >>
    ELSE Dec(Head(text)) \o <<58>> \o AssociatedText_fmt_trailing(Tail(text))

\* impl Display for AssociatedText
AssociatedText_fmt(text) ==
    IF text = << >> THEN << >>
    ELSE Dec(Head(text)) \o AssociatedText_rest(Tail(text))

\* impl Display for SequenceTerminator
SequenceTerminator_fmt(terminator) ==
    IF terminator.tag = "Other" THEN <<terminator.ch>> ELSE <<117>>

\* the condition of the debug_assert! of Sequence's Display
shift_assertion(sequence) ==
    ~intersects(sequence.modifier, SHIFT)
    \/ IsSome(sequence.key_code.shifted_key_code)

\* mutant: the wildcard arm (_, _, None) is placed before (false, Press, None)
trailing_fields_wildcard_first(sequence) ==
    LET empty == is_empty(sequence.modifier)
        press == sequence.event_type = "Press"
        text == sequence.associated_text
        M == KeyboardModifiers_fmt(sequence.modifier)
        E == EventType_fmt(sequence.event_type)
    IN  IF empty /\ press /\ text = None THEN << >>
        ELSE IF text = None THEN <<59>> \o M \o <<58>> \o E
        ELSE IF empty /\ press
             THEN <<59, 59>> \o AssociatedText_fmt(Unwrap(text))
        ELSE IF ~empty /\ press
             THEN <<59>> \o M \o <<59>> \o AssociatedText_fmt(Unwrap(text))
        ELSE <<59>> \o M \o <<58>> \o E \o <<59>> \o AssociatedText_fmt(Unwrap(text))

\* the match on (modifier.is_empty(), event_type, &associated_text),
\* the arms in order, first match wins
trailing_fields(sequence) ==
    LET empty == is_empty(sequence.modifier)
        press == sequence.event_type = "Press"
        text == sequence.associated_text
        M == KeyboardModifiers_fmt(sequence.modifier)
        E == EventType_fmt(sequence.event_type)
    IN  IF empty /\ press /\ text = None THEN << >>
        ELSE IF ~empty /\ press /\ text = None THEN <<59>> \o M
        ELSE IF empty /\ press /\ IsSome(text)
             THEN <<59, 59>> \o AssociatedText_fmt(Unwrap(text))
        ELSE IF text = None THEN <<59>> \o M \o <<58>> \o E
        ELSE IF ~empty /\ press /\ IsSome(text)
             THEN <<59>> \o M \o <<59>> \o AssociatedText_fmt(Unwrap(text))
        ELSE <<59>> \o M \o <<58>> \o E \o <<59>> \o AssociatedText_fmt(Unwrap(text))

\* the writes of Sequence's Display after the assertion
Sequence_text(sequence) ==
    SequenceIntroducer_fmt(sequence.introducer)
    \o KeyCode_fmt(sequence.key_code)
    \o trailing_fields(sequence)
    \o SequenceTerminator_fmt(sequence.terminator)

\* what format!() leaves: the string, or a panic and no string
Formatted(text) == [panicked |-> FALSE, text |-> text]
Panicked == [panicked |-> TRUE, text |-> << >>]

\* impl Display for Sequence; debug_assertions is the build's cfg
Sequence_fmt(sequence, debug_assertions) ==
    IF debug_assertions /\ ~shift_assertion(sequence)
    THEN Panicked
    ELSE Formatted(Sequence_text(sequence))

(* ------------------------------ key.rs -------------------------------- *)
Unicode(ch) == [tag |-> "Unicode", ch |-> ch]
Functional(func) == [tag |-> "Functional", func |-> func]
Unknown == [tag |-> "Unknown"]

\* the two arms of the seq! macro
seq(num) == SequenceDefault(num, Kitty)
seq_terminated(num, ch) == SequenceDefault(num, Other(ch))

\* FunctionalKey::to_sequence, one entry per match arm
FunctionalKeyTable ==
       "Escape" :> seq(27)
    @@ "Enter" :> seq(13)
    @@ "Tab" :> seq(9)
    @@ "Backspace" :> seq(127)
    @@ "Insert" :> seq_terminated(2, 126)
    @@ "Delete" :> seq_terminated(3, 126)
    @@ "Left" :> seq_terminated(1, 68)
    @@ "Right" :> seq_terminated(1, 67)
    @@ "Up" :> seq_terminated(1, 65)
    @@ "Down" :> seq_terminated(1, 66)
    @@ "PageUp" :> seq_terminated(5, 126)
    @@ "PageDown" :> seq_terminated(6, 126)
    @@ "Home" :> seq_terminated(1, 72)
    @@ "End" :> seq_terminated(1, 70)
    @@ "CapsLock" :> seq(57358)
    @@ "ScrollLock" :> seq(57359)
    @@ "NumLock" :> seq(57360)
    @@ "PrintScreen" :> seq(57361)
    @@ "Pause" :> seq(57362)
    @@ "Menu" :> seq(57363)
    @@ "F1" :> seq_terminated(1, 80)
    @@ "F2" :> seq_terminated(1, 81)
    @@ "F3" :> seq_terminated(13, 126)
    @@ "F4" :> seq_terminated(1, 83)
    @@ "F5" :> seq_terminated(15, 126)
    @@ "F6" :> seq_terminated(17, 126)
    @@ "F7" :> seq_terminated(18, 126)
    @@ "F8" :> seq_terminated(19, 126)
    @@ "F9" :> seq_terminated(20, 126)
    @@ "F10" :> seq_terminated(21, 126)
    @@ "F11" :> seq_terminated(23, 126)
    @@ "F12" :> seq_terminated(24, 126)
    @@ "F13" :> seq(57376)
    @@ "F14" :> seq(57377)
    @@ "F15" :> seq(57378)
    @@ "F16" :> seq(57379)
    @@ "F17" :> seq(57380)
    @@ "F18" :> seq(57381)
    @@ "F19" :> seq(57382)
    @@ "F20" :> seq(57383)
    @@ "F21" :> seq(57384)
    @@ "F22" :> seq(57385)
    @@ "F23" :> seq(57386)
    @@ "F24" :> seq(57387)
    @@ "F25" :> seq(57388)
    @@ "F26" :> seq(57389)
    @@ "F27" :> seq(57390)
    @@ "F28" :> seq(57391)
    @@ "F29" :> seq(57392)
    @@ "F30" :> seq(57393)
    @@ "F31" :> seq(57394)
    @@ "F32" :> seq(57395)
    @@ "F33" :> seq(57396)
    @@ "F34" :> seq(57397)
    @@ "F35" :> seq(57398)
    @@ "NumPad0" :> seq(57399)
    @@ "NumPad1" :> seq(57400)
    @@ "NumPad2" :> seq(57401)
    @@ "NumPad3" :> seq(57402)
    @@ "NumPad4" :> seq(57403)
    @@ "NumPad5" :> seq(57404)
    @@ "NumPad6" :> seq(57405)
    @@ "NumPad7" :> seq(57406)
    @@ "NumPad8" :> seq(57407)
    @@ "NumPad9" :> seq(57408)
    @@ "NumPadDecimal" :> seq(57409)
    @@ "NumPadDivide" :> seq(57410)
    @@ "NumPadMultply" :> seq(57411)
    @@ "NumPadSubtract" :> seq(57412)
    @@ "NumPadAdd" :> seq(57413)
    @@ "NumPadEnter" :> seq(57414)
    @@ "NumPadEqual" :> seq(57415)
    @@ "NumPadSeparator" :> seq(57416)
    @@ "NumPadLeft" :> seq(57417)
    @@ "NumPadRight" :> seq(57418)
    @@ "NumPadUp" :> seq(57419)
    @@ "NumPadDown" :> seq(57420)
    @@ "NumPadPageUp" :> seq(57421)
    @@ "NumPadPageDown" :> seq(57422)
    @@ "NumPadHome" :> seq(57423)
    @@ "NumPadEnd" :> seq(57424)
    @@ "NumPadInsert" :> seq(57425)
    @@ "NumPadDelete" :> seq(57426)
    @@ "NumPadBegin" :> seq_terminated(1, 69)
    @@ "MediaPlay" :> seq(57428)
    @@ "MediaPause" :> seq(57429)
    @@ "MediaPlayPause" :> seq(57430)
    @@ "MediaReverse" :> seq(57431)
    @@ "MediaStop" :> seq(57432)
    @@ "MediaFastForward" :> seq(57433)
    @@ "MediaRewind" :> seq(57434)
    @@ "MediaTrackNext" :> seq(57435)
    @@ "MediaTrackPrevious" :> seq(57436)
    @@ "MediaRecord" :> seq(57437)
    @@ "LowerVolume" :> seq(57438)
    @@ "RaiseVolume" :> seq(57439)
    @@ "MuteVolume" :> seq(57440)
    @@ "LeftShift" :> seq(57441)
    @@ "LeftControl" :> seq(57442)
    @@ "LeftAlt" :> seq(57443)
    @@ "LeftSuper" :> seq(57444)
    @@ "LeftHyper" :> seq(57445)
    @@ "LeftMeta" :> seq(57446)
    @@ "RightShift" :> seq(57447)
    @@ "RightControl" :> seq(57448)
    @@ "RightAlt" :> seq(57449)
    @@ "RightSuper" :> seq(57450)
    @@ "RightHyper" :> seq(57451)
    @@ "RightMeta" :> seq(57452)
    @@ "IsoLevel3Shift" :> seq(57453)
    @@ "IsoLevel5Shift" :> seq(57454)

FunctionalKey == DOMAIN FunctionalKeyTable

FunctionalKey_to_sequence(func) == FunctionalKeyTable[func]

NumPadKeys == {
    "NumPad0", "NumPad1", "NumPad2", "NumPad3", "NumPad4", "NumPad5",
    "NumPad6", "NumPad7", "NumPad8", "NumPad9", "NumPadDecimal",
    "NumPadDivide", "NumPadMultply", "NumPadSubtract", "NumPadAdd",
    "NumPadEnter", "NumPadEqual", "NumPadSeparator", "NumPadLeft",
    "NumPadRight", "NumPadUp", "NumPadDown", "NumPadPageUp",
    "NumPadPageDown", "NumPadHome", "NumPadEnd", "NumPadInsert",
    "NumPadDelete", "NumPadBegin" }

is_numpad(func) == func \in NumPadKeys

legacy_representation(func) ==
    CASE func = "Escape" -> Some(<<27>>)
      [] func = "Enter" -> Some(<<13>>)
      [] func = "Tab" -> Some(<<9>>)
      [] func = "Backspace" -> Some(<<8>>)
      [] OTHER -> None

\* KeyType::to_sequence
to_sequence(key) ==
    CASE key.tag = "Unicode" -> Some(SequenceDefault(key.ch, Kitty))
      [] key.tag = "Functional" -> Some(FunctionalKey_to_sequence(key.func))
      [] OTHER -> None

\* KeyType::to_key_code
to_key_code(key) ==
    CASE key.tag = "Unicode" -> Some(key.ch)
      [] OTHER -> None

(* ------------------------------ lib.rs -------------------------------- *)
Nothing == [tag |-> "Nothing"]
Text(text, alt_pressed) == [tag |-> "Text", text |-> text, alt_pressed |-> alt_pressed]
Character(character, alt_pressed) ==
    [tag |-> "Character", character |-> character, alt_pressed |-> alt_pressed]
SequenceResponse(sequence) == [tag |-> "Sequence", sequence |-> sequence]

\* mutant: the release test looks at the wrong mode flag
release_suppressed_wrong_flag(mode, key_event) ==
    key_event.event_type = "Release" /\ ~intersects(mode, REPORT_ALTERNATE_KEYS)

\* lines 82-87: release events are dropped when event types are not reported
release_suppressed(mode, key_event) ==
    key_event.event_type = "Release" /\ ~intersects(mode, REPORT_EVENT_TYPES)

\* lines 89-94: REPORT_ALL_KEYS_AS_ESC branch
all_keys_as_esc_response(key_event) ==
    LET unshifted_key == key_event.key_without_modifiers
    IN  IF IsSome(to_sequence(unshifted_key))
        THEN SequenceResponse(Unwrap(to_sequence(unshifted_key)))
        ELSE Nothing

\* mutant: Tab is missing from the exception list
exception_without_tab(unshifted_key) ==
    unshifted_key.tag = "Functional"
    /\ unshifted_key.func \in {"Enter", "Backspace"}

\* mutant: Escape is treated as an exception too
exception_with_escape(unshifted_key) ==
    unshifted_key.tag = "Functional"
    /\ unshifted_key.func \in {"Escape", "Enter", "Tab", "Backspace"}

\* lines 96-101: the Enter / Tab / Backspace exception
exception(unshifted_key) ==
    unshifted_key.tag = "Functional"
    /\ unshifted_key.func \in {"Enter", "Tab", "Backspace"}

\* lines 95-128: DISAMBIGUATE_ESC_CODES branch
disambiguate_response(key_event) ==
    LET shifted_key == key_event.key_with_modifiers
        unshifted_key == key_event.key_without_modifiers
        modifiers == key_event.modifiers
    IN  IF is_empty(difference(modifiers, SHIFT)) \/ exception(unshifted_key)
        THEN CASE shifted_key.tag = "Functional" /\ shifted_key.func = "Escape" ->
                    SequenceResponse(FunctionalKey_to_sequence(shifted_key.func))
               [] shifted_key.tag = "Functional" /\ shifted_key.func # "Escape"
                  /\ is_numpad(shifted_key.func) ->
                    SequenceResponse(FunctionalKey_to_sequence(shifted_key.func))
               [] shifted_key.tag = "Functional" /\ shifted_key.func # "Escape"
                  /\ ~is_numpad(shifted_key.func) ->
                    IF IsSome(legacy_representation(shifted_key.func))
                    THEN Text(Unwrap(legacy_representation(shifted_key.func)), FALSE)
                    ELSE SequenceResponse(FunctionalKey_to_sequence(shifted_key.func))
               [] shifted_key.tag = "Unicode" -> Character(shifted_key.ch, FALSE)
               [] OTHER -> Nothing
        ELSE IF IsSome(to_sequence(unshifted_key))
             THEN SequenceResponse(Unwrap(to_sequence(unshifted_key)))
             ELSE Nothing

\* mutant: the associated text wins over the legacy representation
legacy_text_prefers_associated(func, key_event) ==
    IF IsSome(key_event.associated_text)
    THEN key_event.associated_text
    ELSE legacy_representation(func)

\* func.legacy_representation().or_else(|| key_event.associated_text().map(|at| at.0))
legacy_text(func, key_event) ==
    IF IsSome(legacy_representation(func))
    THEN legacy_representation(func)
    ELSE key_event.associated_text

\* lines 129-150: legacy branch
legacy_response(key_event) ==
    LET shifted_key == key_event.key_with_modifiers
        modifiers == key_event.modifiers
    IN  CASE shifted_key.tag = "Unicode" ->
                Character(shifted_key.ch, intersects(modifiers, ALT))
          [] shifted_key.tag = "Functional" ->
                IF IsSome(legacy_text(shifted_key.func, key_event))
                THEN Text(Unwrap(legacy_text(shifted_key.func, key_event)),
                          intersects(modifiers, ALT))
                ELSE SequenceResponse(FunctionalKey_to_sequence(shifted_key.func))
          [] OTHER -> Nothing

\* mutant: the disambiguate branch is tried before the force-escape branch
select_response_disambiguate_first(mode, key_event) ==
    IF intersects(mode, DISAMBIGUATE_ESC_CODES)
    THEN disambiguate_response(key_event)
    ELSE IF intersects(mode, REPORT_ALL_KEYS_AS_ESC)
         THEN all_keys_as_esc_response(key_event)
         ELSE legacy_response(key_event)

\* lines 89-150: the response before augmentation
select_response(mode, key_event) ==
    IF intersects(mode, REPORT_ALL_KEYS_AS_ESC)
    THEN all_keys_as_esc_response(key_event)
    ELSE IF intersects(mode, DISAMBIGUATE_ESC_CODES)
         THEN disambiguate_response(key_event)
         ELSE legacy_response(key_event)

\* mutant: the lock flags are stripped from the reported modifiers
augment_modifier_without_locks(mode, key_event, sequence) ==
    [sequence EXCEPT
        !.modifier = difference(key_event.modifiers, CAPS_LOCK + NUM_LOCK)]

\* line 154
augment_modifier(mode, key_event, sequence) ==
    [sequence EXCEPT !.modifier = key_event.modifiers]

\* mutant: the event type is copied whatever the mode
augment_event_type_unconditional(mode, key_event, sequence) ==
    [sequence EXCEPT !.event_type = key_event.event_type]

\* lines 156-158
augment_event_type(mode, key_event, sequence) ==
    IF intersects(mode, REPORT_EVENT_TYPES)
    THEN [sequence EXCEPT !.event_type = key_event.event_type]
    ELSE sequence

\* mutant: the base-layout code is taken from the modifier-stripped key
augment_alternate_keys_base_from_unshifted(mode, key_event, sequence) ==
    IF intersects(mode, REPORT_ALTERNATE_KEYS)
    THEN LET shifted ==
                 IF intersects(key_event.modifiers, SHIFT)
                 THEN [sequence EXCEPT !.key_code.shifted_key_code =
                                           to_key_code(key_event.key_with_modifiers)]
                 ELSE sequence
         IN  [shifted EXCEPT !.key_code.base_layout_key_code =
                                 to_key_code(key_event.key_without_modifiers)]
    ELSE sequence

\* lines 160-165
augment_alternate_keys(mode, key_event, sequence) ==
    IF intersects(mode, REPORT_ALTERNATE_KEYS)
    THEN LET shifted ==
                 IF intersects(key_event.modifiers, SHIFT)
                 THEN [sequence EXCEPT !.key_code.shifted_key_code =
                                           to_key_code(key_event.key_with_modifiers)]
                 ELSE sequence
         IN  [shifted EXCEPT !.key_code.base_layout_key_code =
                                 to_key_code(key_event.key_base_layout)]
    ELSE sequence

\* lines 167-169
augment_associated_text(mode, key_event, sequence) ==
    IF intersects(mode, REPORT_ASSOCIATED_TEXT)
    THEN [sequence EXCEPT !.associated_text = key_event.associated_text]
    ELSE sequence

\* mutant: the final release override is missing
finish_response_no_override(mode, key_event, selected) ==
    IF selected.tag = "Sequence"
    THEN SequenceResponse(
             augment_associated_text(mode, key_event,
                 augment_alternate_keys(mode, key_event,
                     augment_event_type(mode, key_event,
                         augment_modifier(mode, key_event, selected.sequence)))))
    ELSE selected

\* lines 152-175: augmentation of a Sequence, release override otherwise
finish_response(mode, key_event, selected) ==
    IF selected.tag = "Sequence"
    THEN SequenceResponse(
             augment_associated_text(mode, key_event,
                 augment_alternate_keys(mode, key_event,
                     augment_event_type(mode, key_event,
                         augment_modifier(mode, key_event, selected.sequence)))))
    ELSE IF key_event.event_type = "Release"
         THEN Nothing
         ELSE selected

\* pub fn generate_sequence(mode, key_event) -> EventResponse
generate_sequence(mode, key_event) ==
    IF release_suppressed(mode, key_event)
    THEN Nothing
    ELSE finish_response(mode, key_event, select_response(mode, key_event))

\* mutant: the alt_pressed: true arm of Character writes no ESC
EventResponse_fmt_character_without_esc(event_response, debug_assertions) ==
    CASE event_response.tag = "Text" /\ ~event_response.alt_pressed ->
            Formatted(event_response.text)
      [] event_response.tag = "Text" /\ event_response.alt_pressed ->
            Formatted(<<27>> \o event_response.text)
      [] event_response.tag = "Character" ->
            Formatted(<<event_response.character>>)
      [] event_response.tag = "Sequence" ->
            Sequence_fmt(event_response.sequence, debug_assertions)
      [] event_response.tag = "Nothing" -> Formatted(<< >>)

\* impl Display for EventResponse
EventResponse_fmt(event_response, debug_assertions) ==
    CASE event_response.tag = "Text" /\ ~event_response.alt_pressed ->
            Formatted(event_response.text)
      [] event_response.tag = "Text" /\ event_response.alt_pressed ->
            Formatted(<<27>> \o event_response.text)
      [] event_response.tag = "Character" /\ ~event_response.alt_pressed ->
            Formatted(<<event_response.character>>)
      [] event_response.tag = "Character" /\ event_response.alt_pressed ->
            Formatted(<<27, event_response.character>>)
      [] event_response.tag = "Sequence" ->
            Sequence_fmt(event_response.sequence, debug_assertions)
      [] event_response.tag = "Nothing" -> Formatted(<< >>)

(* --------------------------- inputs ----------------------------------- *)
\* 'a', 'A', ^C, 'b': the scalars of the repository's own test events
UnicodeSample == <<97, 65, 3, 98>>
Chars == {UnicodeSample[i] : i \in 1..NumChars}

\* one functional key per class: the four with a legacy representation,
\* a cursor key (code 1, own terminator), a keypad key, a plain Kitty key
FunctionalSample == {"Escape", "Enter", "Tab", "Backspace", "Up", "NumPad5", "F13"}

Keys ==
    {Unicode(c) : c \in Chars} \cup {Functional(f) : f \in FunctionalSample}
    \cup {Unknown}
BaseKeys == {Unicode(97), Functional("Up"), Unknown}

\* texts over the single scalar '5'
RECURSIVE Fives(_)
Fives(n) == IF n = 0 THEN << >> ELSE <<53>> \o Fives(n - 1)
AssociatedTexts == {None} \cup {Some(Fives(n)) : n \in 0..MaxTextLen}

\* the empty set, every single flag, some pairs and the full set
ModifierSamples ==
    {0, SHIFT, ALT, CTRL, SUPER, HYPER, META, CAPS_LOCK, NUM_LOCK,
     SHIFT + ALT, SHIFT + CTRL, CAPS_LOCK + NUM_LOCK,
     SHIFT + ALT + CTRL + SUPER + HYPER + META + CAPS_LOCK + NUM_LOCK}

ReportingModes == 0..ReportingModeAll

KeyEvents ==
    [key_with_modifiers : Keys,
     key_without_modifiers : Keys,
     key_base_layout : BaseKeys,
     modifiers : ModifierSamples,
     event_type : EventTypes,
     associated_text : AssociatedTexts]

\* values handed to format!(): the cases of the repository's Display tests
\* and their neighbours
KeyCodeSamples ==
    [key_code : {1, 2, 97, 123},
     shifted_key_code : {None, Some(1), Some(456)},
     base_layout_key_code : {None, Some(1), Some(789)}]

\* texts over 'a', 'b', 'c'
RECURSIVE TextsOfLen(_)
TextsOfLen(n) ==
    IF n = 0 THEN {<< >>}
    ELSE {<<c>> \o t : c \in {97, 98, 99}, t \in TextsOfLen(n - 1)}
DisplayTexts == UNION {TextsOfLen(n) : n \in 0..MaxDisplayTextLen}

AllModifiers == 0..(SHIFT + ALT + CTRL + SUPER + HYPER + META + CAPS_LOCK + NUM_LOCK)

SequenceSamples ==
    [introducer : {"CSI", "SS3"},
     key_code : [key_code : {1, 97},
                 shifted_key_code : {None, Some(65)},
                 base_layout_key_code : {None, Some(98)}],
     modifier : {0, SHIFT, CTRL, SHIFT + CTRL + HYPER,
                 SHIFT + ALT + CTRL + SUPER + HYPER + META + CAPS_LOCK + NUM_LOCK},
     event_type : EventTypes,
     associated_text : {None, Some(<< >>), Some(<<97>>), Some(<<97, 98, 99>>)},
     terminator : {Kitty, Other(126), Other(72)}]

TextSamples ==
    {Text(t, a) : t \in {<< >>, <<97>>, <<27>>, <<97, 98>>}, a \in BOOLEAN}
CharacterSamples == {Character(c, a) : c \in {97, 65, 3}, a \in BOOLEAN}
SequenceResponseSamples ==
    {SequenceResponse(q) : q \in {x \in SequenceSamples : x.introducer = "CSI"}}

Value(type, v) == [type |-> type, v |-> v]
NoValue == [type |-> "None"]

\* #[derive(Default)] DummyKeyEvent
DefaultKeyEvent ==
    [key_with_modifiers |-> Unknown,
     key_without_modifiers |-> Unknown,
     key_base_layout |-> Unknown,
     modifiers |-> 0,
     event_type |-> "Press",
     associated_text |-> None]

(* --------------------------- state machine ---------------------------- *)
\* mode, key_event, response: the arguments and the result of one call of
\* generate_sequence; value, out: the argument and the result of format!();
\* pc: the position of the caller
\* calls: the arguments, position and result of each concurrent caller;
\* locals: the `let response` binding of each invocation in progress
VARIABLES mode, key_event, response, pc, value, out, calls, locals

vars == <<mode, key_event, response, pc, value, out, calls, locals>>

Callers == 1..NumCallers

\* a caller that is not inside generate_sequence
IdleCall ==
    [mode |-> 0, key_event |-> DefaultKeyEvent, pc |-> "idle", result |-> None]
NoCalls == [c \in Callers |-> IdleCall]
NoLocals == [c \in Callers |-> Nothing]

\* a caller holds a mode and an event; no response has been produced yet
Init ==
    /\ mode \in ReportingModes
    /\ key_event \in KeyEvents
    /\ response = Nothing
    /\ pc = "call"
    /\ value = NoValue
    /\ out = Formatted(<< >>)
    /\ calls = NoCalls
    /\ locals = NoLocals

\* one call of generate_sequence
GenerateSequence ==
    /\ pc = "call"
    /\ response' = generate_sequence(mode, key_event)
    /\ pc' = "done"
    /\ UNCHANGED <<mode, key_event, value, out, calls, locals>>

Next == GenerateSequence

Spec == Init /\ [][Next]_vars

\* format!("{response}") of the response of the call, as the tests do
FormatGenerated ==
    /\ pc = "done"
    /\ \E debug_assertions \in BOOLEAN :
           out' = EventResponse_fmt(response, debug_assertions)
    /\ pc' = "formatted"
    /\ UNCHANGED <<mode, key_event, response, value, calls, locals>>

NextSerialize == GenerateSequence \/ FormatGenerated

\* one call of generate_sequence followed by the serialization of its result
SerializeSpec == Init /\ [][NextSerialize]_vars

\* a caller holds one value of a Display type
InitDisplay ==
    /\ mode = 0
    /\ key_event = DefaultKeyEvent
    /\ response = Nothing
    /\ pc = "format"
    /\ \/ \E q \in SequenceSamples : value = Value("Sequence", q)
       \/ \E k \in KeyCodeSamples : value = Value("KeyCode", k)
       \/ \E m \in AllModifiers : value = Value("KeyboardModifiers", m)
       \/ \E t \in DisplayTexts : value = Value("AssociatedText", t)
       \/ \E r \in TextSamples : value = Value("EventResponse", r)
       \/ \E r \in CharacterSamples : value = Value("EventResponse", r)
       \/ \E r \in SequenceResponseSamples : value = Value("EventResponse", r)
       \/ value = Value("EventResponse", Nothing)
    /\ out = Formatted(<< >>)
    /\ calls = NoCalls
    /\ locals = NoLocals

FormatSequence ==
    /\ pc = "format"
    /\ value.type = "Sequence"
    /\ \E debug_assertions \in BOOLEAN :
           out' = Sequence_fmt(value.v, debug_assertions)
    /\ pc' = "formatted"
    /\ UNCHANGED <<mode, key_event, response, value, calls, locals>>

FormatKeyCode ==
    /\ pc = "format"
    /\ value.type = "KeyCode"
    /\ out' = Formatted(KeyCode_fmt(value.v))
    /\ pc' = "formatted"
    /\ UNCHANGED <<mode, key_event, response, value, calls, locals>>

FormatKeyboardModifiers ==
    /\ pc = "format"
    /\ value.type = "KeyboardModifiers"
    /\ out' = Formatted(KeyboardModifiers_fmt(value.v))
    /\ pc' = "formatted"
    /\ UNCHANGED <<mode, key_event, response, value, calls, locals>>

FormatAssociatedText ==
    /\ pc = "format"
    /\ value.type = "AssociatedText"
    /\ out' = Formatted(AssociatedText_fmt(value.v))
    /\ pc' = "formatted"
    /\ UNCHANGED <<mode, key_event, response, value, calls, locals>>

FormatEventResponse ==
    /\ pc = "format"
    /\ value.type = "EventResponse"
    /\ \E debug_assertions \in BOOLEAN :
           out' = EventResponse_fmt(value.v, debug_assertions)
    /\ pc' = "formatted"
    /\ UNCHANGED <<mode, key_event, response, value, calls, locals>>

NextDisplay ==
    \/ FormatSequence
    \/ FormatKeyCode
    \/ FormatKeyboardModifiers
    \/ FormatAssociatedText
    \/ FormatEventResponse

\* format!() of one value of each Display type
DisplaySpec == InitDisplay /\ [][NextDisplay]_vars

\* the events of generation_test that take different branches: Shift+A,
\* a repeated Up, Ctrl+C and the release of b
ConcurrentEvents ==
    {[DefaultKeyEvent EXCEPT !.key_with_modifiers = Unicode(65),
                             !.key_without_modifiers = Unicode(97),
                             !.modifiers = SHIFT],
     [DefaultKeyEvent EXCEPT !.key_with_modifiers = Functional("Up"),
                             !.key_without_modifiers = Functional("Up"),
                             !.event_type = "Repeat"],
     [DefaultKeyEvent EXCEPT !.key_with_modifiers = Unicode(3),
                             !.key_without_modifiers = Unicode(99),
                             !.modifiers = CTRL],
     [DefaultKeyEvent EXCEPT !.key_with_modifiers = Unicode(98),
                             !.key_without_modifiers = Unicode(98),
                             !.event_type = "Release"]}

\* the modes of test_generation_legacy, _disambiguate and _all_modes
ConcurrentModes == {0, DISAMBIGUATE_ESC_CODES, ReportingModeAll}

\* mutant: the selected response is kept in one place shared by all calls
shared_slot(c) == 1

\* `let response` is a local of the invocation: one binding per call
local_slot(c) == c

\* every caller is about to call generate_sequence with its own arguments
InitConcurrent ==
    /\ mode = 0
    /\ key_event = DefaultKeyEvent
    /\ response = Nothing
    /\ pc = "concurrent"
    /\ value = NoValue
    /\ out = Formatted(<< >>)
    /\ calls \in [Callers -> [mode : ConcurrentModes,
                              key_event : ConcurrentEvents,
                              pc : {"call"},
                              result : {None}]]
    /\ locals = NoLocals

\* lines 78-87: read the event, return Nothing for a suppressed release
Enter(c) ==
    /\ calls[c].pc = "call"
    /\ IF release_suppressed(calls[c].mode, calls[c].key_event)
       THEN calls' = [calls EXCEPT ![c].pc = "done", ![c].result = Some(Nothing)]
       ELSE calls' = [calls EXCEPT ![c].pc = "select"]
    /\ UNCHANGED <<mode, key_event, response, pc, value, out, locals>>

\* lines 89-150: let response = ...
Select(c) ==
    /\ calls[c].pc = "select"
    /\ locals' = [locals EXCEPT ![local_slot(c)] =
                      select_response(calls[c].mode, calls[c].key_event)]
    /\ calls' = [calls EXCEPT ![c].pc = "finish"]
    /\ UNCHANGED <<mode, key_event, response, pc, value, out>>

\* lines 152-175: match response, and return
Finish(c) ==
    /\ calls[c].pc = "finish"
    /\ calls' = [calls EXCEPT
                    ![c].pc = "done",
                    ![c].result = Some(finish_response(calls[c].mode,
                                                       calls[c].key_event,
                                                       locals[local_slot(c)]))]
    /\ UNCHANGED <<mode, key_event, response, pc, value, out, locals>>

Call(c) == Enter(c) \/ Select(c) \/ Finish(c)

NextConcurrent == \E c \in Callers : Call(c)

\* concurrent calls, interleaved at the three stages of generate_sequence;
\* the function is straight-line code that never blocks, so every caller
\* that can take a step eventually takes it
ConcurrentSpec ==
    InitConcurrent /\ [][NextConcurrent]_vars
    /\ \A c \in Callers : WF_vars(Call(c))

(* ------------------------------ claims -------------------------------- *)
Done == pc = "done"
IsSequence == response.tag = "Sequence"
IsRelease == key_event.event_type = "Release"
Suppressed == IsRelease /\ ~intersects(mode, REPORT_EVENT_TYPES)
ForceEscapeMode == intersects(mode, REPORT_ALL_KEYS_AS_ESC)
DisambiguateMode ==
    intersects(mode, DISAMBIGUATE_ESC_CODES) /\ ~intersects(mode, REPORT_ALL_KEYS_AS_ESC)
LegacyMode ==
    ~intersects(mode, DISAMBIGUATE_ESC_CODES) /\ ~intersects(mode, REPORT_ALL_KEYS_AS_ESC)
OnlyShift == is_empty(difference(key_event.modifiers, SHIFT))
UnshiftedIsException ==
    key_event.key_without_modifiers \in
        {Functional("Enter"), Functional("Tab"), Functional("Backspace")}
AltPressed == intersects(key_event.modifiers, ALT)

\* the response is the Sequence whose primary code and terminator are those
\* of the skeleton of `key`, or Nothing when `key` is Unknown
FromSkeletonOf(key) ==
    IF key = Unknown
    THEN response = Nothing
    ELSE /\ IsSequence
         /\ response.sequence.key_code.key_code =
                Unwrap(to_sequence(key)).key_code.key_code
         /\ response.sequence.terminator = Unwrap(to_sequence(key)).terminator

\* C1: a Release event under a mode without REPORT_EVENT_TYPES yields Nothing,
\* whatever the keys, the modifiers, the text and the other mode flags are.
C1_ReleaseSuppression ==
    (Done /\ IsRelease /\ ~intersects(mode, REPORT_EVENT_TYPES))
        => response = Nothing

\* a suppressed release of a representable key under force-escape mode
C1_Witness ==
    /\ Done /\ IsRelease /\ ~intersects(mode, REPORT_EVENT_TYPES)
    /\ ForceEscapeMode
    /\ key_event.key_without_modifiers = Functional("Escape")
    /\ key_event.modifiers = SHIFT + CTRL
    /\ IsSome(key_event.associated_text)
    /\ response = Nothing

\* C2: every returned Sequence whose modifier set contains SHIFT has its
\* shifted_key_code populated (the debug assertion of Sequence's Display).
C2_ShiftedCodePopulated ==
    (Done /\ IsSequence /\ intersects(response.sequence.modifier, SHIFT))
        => IsSome(response.sequence.key_code.shifted_key_code)

\* C3: a Release event never yields Text or Character; it yields Nothing or
\* a Sequence, and such a Sequence has event_type = Release.
C3_FinalReleaseOverride ==
    (Done /\ IsRelease)
        => /\ response.tag \in {"Nothing", "Sequence"}
           /\ IsSequence => response.sequence.event_type = "Release"

\* a reported release whose selected response was a Character is dropped
C3_Witness ==
    /\ Done /\ IsRelease /\ intersects(mode, REPORT_EVENT_TYPES)
    /\ LegacyMode
    /\ key_event.key_with_modifiers.tag = "Unicode"
    /\ response = Nothing

\* C4: under REPORT_ALL_KEYS_AS_ESC (with or without DISAMBIGUATE_ESC_CODES)
\* an event that is not suppressed yields the Sequence of the skeleton of
\* key_without_modifiers, or Nothing exactly when that key is Unknown.
C4_ForceEscape ==
    (Done /\ ForceEscapeMode /\ ~Suppressed)
        => /\ FromSkeletonOf(key_event.key_without_modifiers)
           /\ response = Nothing <=> key_event.key_without_modifiers = Unknown

\* Enter with both flags set and a Unicode key_with_modifiers is escape-encoded
C4_Witness ==
    /\ Done /\ ForceEscapeMode /\ intersects(mode, DISAMBIGUATE_ESC_CODES)
    /\ ~IsRelease
    /\ key_event.key_without_modifiers = Functional("Enter")
    /\ key_event.key_with_modifiers.tag = "Unicode"
    /\ IsSequence
    /\ response.sequence.key_code.key_code = 13

\* C5: disambiguate mode, non-Release, modifiers empty up to SHIFT or an
\* Enter/Tab/Backspace key_without_modifiers: the response is decided by
\* key_with_modifiers alone, and alt_pressed is always false.
C5_DisambiguateUnmodified ==
    (Done /\ DisambiguateMode /\ ~IsRelease /\ (OnlyShift \/ UnshiftedIsException))
        => LET k == key_event.key_with_modifiers
           IN  CASE k.tag = "Unicode" -> response = Character(k.ch, FALSE)
                 [] k.tag = "Unknown" -> response = Nothing
                 [] k.tag = "Functional" /\ k.func = "Escape" ->
                        FromSkeletonOf(k)
                 [] k.tag = "Functional" /\ k.func # "Escape" /\ k.func \in NumPadKeys ->
                        FromSkeletonOf(k)
                 [] k.tag = "Functional" /\ k.func # "Escape" /\ k.func \notin NumPadKeys ->
                        IF IsSome(legacy_representation(k.func))
                        THEN response = Text(Unwrap(legacy_representation(k.func)), FALSE)
                        ELSE FromSkeletonOf(k)

\* Ctrl+Alt held on a Tab key whose modified identity is a scalar
C5_Witness ==
    /\ Done /\ DisambiguateMode /\ ~IsRelease
    /\ ~OnlyShift /\ AltPressed
    /\ key_event.key_without_modifiers = Functional("Tab")
    /\ key_event.key_with_modifiers.tag = "Unicode"
    /\ response.tag = "Character" /\ response.alt_pressed = FALSE

\* C6: disambiguate mode, non-Release, modifiers beyond SHIFT and no
\* exception key: the response is the Sequence of the skeleton of
\* key_without_modifiers, or Nothing when that key is Unknown.
C6_DisambiguateModified ==
    (Done /\ DisambiguateMode /\ ~IsRelease /\ ~OnlyShift /\ ~UnshiftedIsException)
        => FromSkeletonOf(key_event.key_without_modifiers)

\* Ctrl+Shift+A: the code reported is that of 'a', not of 'A'
C6_Witness ==
    /\ Done /\ DisambiguateMode /\ ~IsRelease
    /\ key_event.modifiers = SHIFT + CTRL
    /\ key_event.key_with_modifiers = Unicode(65)
    /\ key_event.key_without_modifiers = Unicode(97)
    /\ IsSequence
    /\ response.sequence.key_code.key_code = 97

\* C7: legacy mode, non-Release: Unicode -> Character, Functional with a
\* legacy representation -> Text of it (even with associated text), else
\* with associated text -> Text of that, else Sequence; Unknown -> Nothing;
\* alt_pressed = ALT in modifiers.
C7_Legacy ==
    (Done /\ LegacyMode /\ ~IsRelease)
        => LET k == key_event.key_with_modifiers
           IN  CASE k.tag = "Unicode" -> response = Character(k.ch, AltPressed)
                 [] k.tag = "Unknown" -> response = Nothing
                 [] k.tag = "Functional" ->
                        IF IsSome(legacy_representation(k.func))
                        THEN response =
                                 Text(Unwrap(legacy_representation(k.func)), AltPressed)
                        ELSE IF IsSome(key_event.associated_text)
                             THEN response =
                                      Text(Unwrap(key_event.associated_text), AltPressed)
                             ELSE FromSkeletonOf(k)

\* Alt+Escape carrying an associated text still sends the legacy ESC byte
C7_Witness ==
    /\ Done /\ LegacyMode /\ ~IsRelease
    /\ key_event.key_with_modifiers = Functional("Escape")
    /\ key_event.associated_text = Some(<<53>>)
    /\ AltPressed
    /\ response = Text(<<27>>, TRUE)

\* C8 as stated: with REPORT_ALTERNATE_KEYS every returned Sequence has its
\* base_layout_key_code populated, for every base-layout key identity.
C8_BaseLayoutAlwaysPopulated ==
    (Done /\ intersects(mode, REPORT_ALTERNATE_KEYS) /\ IsSequence)
        => IsSome(response.sequence.key_code.base_layout_key_code)

\* C8 amended: with REPORT_ALTERNATE_KEYS every returned Sequence carries the
\* code point of a Unicode base-layout key, and no base-layout code when the
\* base-layout key is Functional or Unknown.
C8_BaseLayoutFromUnicode ==
    (Done /\ intersects(mode, REPORT_ALTERNATE_KEYS) /\ IsSequence)
        => response.sequence.key_code.base_layout_key_code =
               IF key_event.key_base_layout.tag = "Unicode"
               THEN Some(key_event.key_base_layout.ch)
               ELSE None

\* a Sequence for a key other than the base-layout key carries the base code
C8_Witness ==
    /\ Done /\ intersects(mode, REPORT_ALTERNATE_KEYS) /\ IsSequence
    /\ key_event.key_base_layout = Unicode(97)
    /\ key_event.key_without_modifiers # Unicode(97)
    /\ response.sequence.key_code.key_code # 97
    /\ response.sequence.key_code.base_layout_key_code = Some(97)

\* C9: every returned Sequence has its modifier field equal to the event's
\* full modifier set, whichever branch selected it.
C9_ModifierAugmentation ==
    (Done /\ IsSequence) => response.sequence.modifier = key_event.modifiers

\* a legacy-mode cursor key with both lock flags active
C9_Witness ==
    /\ Done /\ mode = 0 /\ IsSequence
    /\ key_event.key_with_modifiers = Functional("Up")
    /\ key_event.modifiers = CAPS_LOCK + NUM_LOCK
    /\ response.sequence.modifier = CAPS_LOCK + NUM_LOCK

\* C10: in every returned Sequence a field whose mode flag is clear keeps the
\* skeleton's default (Press / None), shifted_key_code is absent without
\* SHIFT, and a Repeat without REPORT_EVENT_TYPES is reported as its Press.
C10_OptionalFieldsGated ==
    (Done /\ IsSequence)
        => /\ ~intersects(mode, REPORT_EVENT_TYPES)
                  => response.sequence.event_type = "Press"
           /\ ~intersects(mode, REPORT_ALTERNATE_KEYS)
                  => /\ response.sequence.key_code.shifted_key_code = None
                     /\ response.sequence.key_code.base_layout_key_code = None
           /\ ~intersects(key_event.modifiers, SHIFT)
                  => response.sequence.key_code.shifted_key_code = None
           /\ ~intersects(mode, REPORT_ASSOCIATED_TEXT)
                  => response.sequence.associated_text = None
           /\ (key_event.event_type = "Repeat" /\ ~intersects(mode, REPORT_EVENT_TYPES))
                  => response =
                         generate_sequence(mode, [key_event EXCEPT !.event_type = "Press"])

\* a repeated cursor key with text and a Unicode base key under plain
\* disambiguate mode
C10_Witness ==
    /\ Done /\ mode = DISAMBIGUATE_ESC_CODES /\ IsSequence
    /\ key_event.event_type = "Repeat"
    /\ key_event.key_with_modifiers = Functional("Up")
    /\ key_event.key_base_layout = Unicode(97)
    /\ key_event.modifiers = SHIFT
    /\ IsSome(key_event.associated_text)
    /\ response.sequence.event_type = "Press"
    /\ response.sequence.associated_text = None

FormattedValue(type) == pc = "formatted" /\ value.type = type

\* C11: for a Sequence satisfying the Shift precondition the text between the
\* key-code field and the terminator is fixed by (modifier empty?, event
\* kind, text present?): nothing, ;M, ;;T, ;M:E, ;M;T or ;M:E;T, with
\* M = bits + 1 written even for the empty set when the kind is not Press,
\* and the terminator comes last.
C11_TrailingFieldGrammar ==
    (/\ FormattedValue("Sequence")
     /\ (intersects(value.v.modifier, SHIFT)
             => IsSome(value.v.key_code.shifted_key_code)))
        => LET q == value.v
               empty == q.modifier = 0
               press == q.event_type = "Press"
               hasText == q.associated_text # None
               M == Dec(q.modifier + 1)
               E == CASE q.event_type = "Press" -> <<49>>
                      [] q.event_type = "Repeat" -> <<50>>
                      [] q.event_type = "Release" -> <<51>>
               T == AssociatedText_fmt(Unwrap(q.associated_text))
               trailing ==
                   CASE empty /\ press /\ ~hasText -> << >>
                     [] ~empty /\ press /\ ~hasText -> <<59>> \o M
                     [] empty /\ press /\ hasText -> <<59, 59>> \o T
                     [] ~press /\ ~hasText -> <<59>> \o M \o <<58>> \o E
                     [] ~empty /\ press /\ hasText -> <<59>> \o M \o <<59>> \o T
                     [] ~press /\ hasText ->
                            <<59>> \o M \o <<58>> \o E \o <<59>> \o T
           IN  /\ ~out.panicked
               /\ out.text = SequenceIntroducer_fmt(q.introducer)
                             \o KeyCode_fmt(q.key_code)
                             \o trailing
                             \o SequenceTerminator_fmt(q.terminator)

\* a repeated Home key without modifiers: ESC [ ; 1 : 2 H
C11_Witness ==
    /\ FormattedValue("Sequence")
    /\ value.v.modifier = 0
    /\ value.v.event_type = "Repeat"
    /\ value.v.associated_text = None
    /\ out = Formatted(<<27, 91, 59, 49, 58, 50, 72>>)

\* C12: a KeyCode (p, s, b) is written as the empty string iff p = 1 with no
\* alternate, else as p, p:s, p::b or p:s:b; the shorthand is never used
\* when an alternate is present.
C12_KeyCodeGrammar ==
    FormattedValue("KeyCode")
        => LET p == value.v.key_code
               s == value.v.shifted_key_code
               b == value.v.base_layout_key_code
           IN  /\ ~out.panicked
               /\ out.text = << >> <=> (p = 1 /\ s = None /\ b = None)
               /\ (s = None /\ b = None /\ p # 1) => out.text = Dec(p)
               /\ (s # None /\ b = None)
                      => out.text = Dec(p) \o <<58>> \o Dec(s[1])
               /\ (s = None /\ b # None)
                      => out.text = Dec(p) \o <<58, 58>> \o Dec(b[1])
               /\ (s # None /\ b # None)
                      => out.text = Dec(p) \o <<58>> \o Dec(s[1])
                                    \o <<58>> \o Dec(b[1])

\* primary code 1 with a base-layout alternate only: 1::789
C12_Witness ==
    /\ FormattedValue("KeyCode")
    /\ value.v.key_code = 1
    /\ value.v.shifted_key_code = None
    /\ value.v.base_layout_key_code = Some(789)
    /\ out = Formatted(<<49, 58, 58, 55, 56, 57>>)

\* the number a string of decimal digits denotes
RECURSIVE ParseDec(_)
ParseDec(digits) ==
    IF digits = << >> THEN 0
    ELSE 10 * ParseDec(SubSeq(digits, 1, Len(digits) - 1))
         + (digits[Len(digits)] - 48)

\* C13: each of the 256 modifier sets is written as the decimal bits + 1, in
\* 1..256 without wrap-around: empty -> 1, SHIFT|CTRL|HYPER -> 22, all -> 256.
C13_ModifierEncoding ==
    FormattedValue("KeyboardModifiers")
        => /\ ~out.panicked
           /\ \A i \in 1..Len(out.text) : out.text[i] \in 48..57
           /\ out.text # << >> /\ out.text[1] # 48
           /\ ParseDec(out.text) = value.v + 1
           /\ value.v = 0 => out.text = <<49>>
           /\ value.v = SHIFT + CTRL + HYPER => out.text = <<50, 50>>
           /\ value.v = 255 => out.text = <<50, 53, 54>>

\* the full set is written 256
C13_Witness ==
    /\ FormattedValue("KeyboardModifiers")
    /\ value.v = 255
    /\ out = Formatted(<<50, 53, 54>>)

\* the decimal code points of a text joined by ':', built from its end
RECURSIVE JoinedCodePoints(_)
JoinedCodePoints(text) ==
    IF Len(text) = 0 THEN << >>
    ELSE IF Len(text) = 1 THEN Dec(text[1])
    ELSE JoinedCodePoints(SubSeq(text, 1, Len(text) - 1))
         \o <<58>> \o Dec(text[Len(text)])

\* C14: an associated text is written as the decimal code points of its
\* scalars in order, joined by single ':' with no leading or trailing
\* separator; "" -> "", "a" -> "97", "abc" -> "97:98:99".
C14_AssociatedTextEncoding ==
    FormattedValue("AssociatedText")
        => /\ ~out.panicked
           /\ out.text = JoinedCodePoints(value.v)
           /\ value.v = << >> => out.text = << >>
           /\ value.v # << >>
                  => /\ out.text[1] # 58
                     /\ out.text[Len(out.text)] # 58
                     /\ Cardinality({i \in 1..Len(out.text) : out.text[i] = 58})
                            = Len(value.v) - 1
           /\ value.v = <<97>> => out.text = <<57, 55>>
           /\ value.v = <<97, 98, 99>>
                  => out.text = <<57, 55, 58, 57, 56, 58, 57, 57>>

\* "abc" is written 97:98:99
C14_Witness ==
    /\ FormattedValue("AssociatedText")
    /\ value.v = <<97, 98, 99>>
    /\ out = Formatted(<<57, 55, 58, 57, 56, 58, 57, 57>>)

\* C15: Text(t, alt) is written as t and Character(c, alt) as c, each after
\* exactly one ESC iff alt; Sequence(s) exactly as s is; Nothing as "".
C15_ResponseSerialization ==
    FormattedValue("EventResponse")
        => LET r == value.v
               esc == IF r.alt_pressed THEN <<27>> ELSE << >>
           IN  CASE r.tag = "Text" -> out = Formatted(esc \o r.text)
                 [] r.tag = "Character" -> out = Formatted(esc \o <<r.character>>)
                 [] r.tag = "Nothing" -> out = Formatted(<< >>)
                 [] r.tag = "Sequence" ->
                        \E debug_assertions \in BOOLEAN :
                            out = Sequence_fmt(r.sequence, debug_assertions)

\* Alt+a as a Character: ESC a
C15_Witness ==
    /\ FormattedValue("EventResponse")
    /\ value.v = Character(97, TRUE)
    /\ out = Formatted(<<27, 97>>)

\* C17: for every mode and every Press or Repeat event whose key_with_modifiers
\* and key_without_modifiers are both known, the serialized response of
\* generate_sequence is a non-empty string, whatever associated text the
\* event carries (a serialization that panics yields no string and is not
\* counted here).
C17_NoKeystrokeLost ==
    (/\ pc = "formatted" /\ value = NoValue
     /\ key_event.event_type \in {"Press", "Repeat"}
     /\ key_event.key_with_modifiers # Unknown
     /\ key_event.key_without_modifiers # Unknown
     /\ ~out.panicked)
        => out.text # << >>

\* C16: in every interleaving of concurrent calls each call ends, with exactly
\* one response, and that response is the one generate_sequence gives for
\* the call's own (mode, event) in isolation.
C16_Statelessness ==
    /\ [](\A c \in Callers :
              /\ calls[c].pc = "done"
                     => calls[c].result =
                            Some(generate_sequence(calls[c].mode, calls[c].key_event))
              /\ calls[c].pc # "done" => calls[c].result = None)
    /\ [][\A c \in Callers :
              calls[c].result # None => calls'[c].result = calls[c].result]_vars
    /\ <>(\A c \in Callers : calls[c].pc = "done")

\* two callers in different branches, the second one finishing first
C16_Witness ==
    /\ calls[1].pc = "finish"
    /\ calls[2].pc = "done"
    /\ calls[1].mode = ReportingModeAll
    /\ calls[2].mode = 0
    /\ calls[1].key_event.key_with_modifiers = Unicode(65)
    /\ calls[2].key_event.key_with_modifiers = Functional("Up")
    /\ locals[1].tag = "Sequence"
    /\ calls[2].result = Some(locals[2])
    /\ locals[2] # locals[1]

====
